---- MODULE Spec2Model ----
(***************************************************************************)
(* SRG RM Copilot: the Wheelhouse API client (wheelhouse.py) and the ETL   *)
(* processor (etl.py) as a state machine.                                  *)
(*                                                                         *)
(* The upstream server, the transport (requests.Session.request) and the   *)
(* file system are the environment: every response, transport exception    *)
(* and write outcome is an input chosen with \E.                            *)
(***************************************************************************)
EXTENDS Integers, Sequences, FiniteSets, TLC

VARIABLES
    pc,             \* control position of the running call
    caller,         \* who called get_all_listings_for_date: "client" | "process_date"
    batch_size,     \* get_all_listings_for_date: batch_size
    offset,         \* get_all_listings_for_date: offset
    total_fetched,  \* get_all_listings_for_date: total_fetched
    all_listings,   \* get_all_listings_for_date: all_listings
    attempt,        \* tenacity: attempt number of the page request in flight
    slept,          \* tenacity: the waits slept before the retries of this request
    requests,       \* the params (limit, offset) of every page request issued
    responses,      \* transport side: what session.request gave to each attempt
                    \* of the page request in flight (reset when the next begins)
    served,         \* server side: every record sent in a 2xx payload, in order
    lastPage,       \* the payload of the last 2xx response
    error,          \* the exception the call raised, "none" if it did not
    fetched,        \* what get_all_listings_for_date returned to a client
    date,           \* process_date: date
    dry_run,        \* process_date: dry_run
    listings,       \* process_date: listings
    grouped,        \* process_date: grouped_listings, in dict (insertion) order
    gi,             \* process_date: position of the loop over grouped_listings
    file_paths,     \* process_date: file_paths
    files_written,  \* process_date: files_written
    files,          \* file system: the file at each existing path
    dirs,           \* file system: the directories that exist
    outcomes,       \* environment side: how the handling of each group ended
    fs0,            \* file system: the tree when process_date was called
    result,         \* what process_date returned
    start_date,     \* process_date_range: start_date
    end_date,       \* process_date_range: end_date
    range_dry,      \* process_date_range: dry_run
    current_dt,     \* process_date_range: current_dt
    calls,          \* the dates process_date was called with, in order
    results,        \* process_date_range: results, in dict (insertion) order
    total_listings, \* process_date_range: total_listings
    total_files,    \* process_date_range: total_files
    rpc,            \* control position of process_date_range
    rerror,         \* the exception process_date_range raised, "none" if none
    summary,        \* what process_date_range returned
    writes,         \* the _write_parquet_file calls made directly, in order
    records,        \* the argument of the last _transform_listing_data call
    table,          \* what that call returned
    today,          \* datetime.now().date()
    files_info,     \* HealthMonitor: the argument of check_data_freshness
    freshness,      \* what check_data_freshness returned
    report,         \* what generate_report returned
    hpc,            \* control position of the HealthMonitor call
    summary_stats,  \* what calculate_summary_stats returned
    quick,          \* what get_quick_status returned
    output_path,    \* the output path of the health-report command
    command,        \* the entry point of the health-report command that ran
    exit_code       \* the exit code of the process, -1 while there is none

fetchVars == <<pc, caller, batch_size, offset, total_fetched, all_listings, attempt,
               slept, requests, responses, served, lastPage, error, fetched>>

etlVars == <<date, dry_run, listings, grouped, gi, file_paths, files_written,
             files, dirs, outcomes, fs0, result>>

fetchVarsButPc == <<caller, batch_size, offset, total_fetched, all_listings, attempt,
                    slept, requests, responses, served, lastPage, error, fetched>>

rangeVars == <<start_date, end_date, range_dry, current_dt, calls, results,
               total_listings, total_files, rpc, rerror, summary>>

unitVars == <<writes, records, table>>

healthVars == <<today, files_info, freshness, report, hpc, summary_stats, quick,
                output_path, command, exit_code>>

vars == <<fetchVars, etlVars, rangeVars, unitVars, healthVars>>

-----------------------------------------------------------------------------
(* Bounds of the model *)

\* the server sends at most this many records in one page
MaxPageLen == 2
\* the server sends at most this many records over one get_all_listings_for_date
MaxFetched == 3
\* a date range ends at most this many days after its start
MaxRangeDays == 2

(* Program constants *)

\* stop_after_attempt(5)
StopAfterAttempt == 5
\* wait_exponential(multiplier=1, min=1, max=60)
WaitMultiplier == 1
WaitMin == 1
WaitMax == 60
\* get_listings: "limit": min(limit, 100)
ApiLimitCap == 100
\* Config.etl_batch_size default
EtlBatchSize == 100

-----------------------------------------------------------------------------
(* Raw API records: the fields the ETL reads.  A field that the record does *)
(* not carry is Absent; an integer is written by its decimal string.        *)

Absent == [t |-> "absent", v |-> ""]
IntV(s) == [t |-> "int", v |-> s]
StrV(s) == [t |-> "str", v |-> s]

Raw(i, l, p, ppn) == [id |-> i, listing_id |-> l, price |-> p, price_per_night |-> ppn]

L1 == Raw(IntV("1"), Absent, IntV("10"), Absent)
L2 == Raw(StrV("1"), Absent, Absent, IntV("20"))
L3 == Raw(Absent, StrV("2"), Absent, Absent)
L4 == Raw(Absent, Absent, IntV("30"), Absent)
L5 == Raw(StrV("2"), Absent, IntV("40"), IntV("50"))

Listings == {L1, L2, L3, L4, L5}
\* the records the server of the client-only specification draws from
ClientListings == {L1, L3}

Min(a, b) == IF a <= b THEN a ELSE b
Max(a, b) == IF a >= b THEN a ELSE b

RECURSIVE Pow2(_)
Pow2(n) == IF n <= 0 THEN 1 ELSE 2 * Pow2(n - 1)

\* sequences over S of length at most n
SeqUpTo(S, n) == UNION {[1..k -> S] : k \in 0..n}

\* what session.request gave to one attempt: a response, or an exception
Response(status) == [kind |-> "response", status |-> status]
Raised == [kind |-> "exception", status |-> 0]
\* a response whose body response.json() cannot decode
InvalidBody == [kind |-> "invalid_body", status |-> 200]

NoPage == [listings |-> <<>>, total |-> -1]
NoValue == [kind |-> "none", value |-> <<>>]
Value(v) == [kind |-> "value", value |-> v]

-----------------------------------------------------------------------------
(* etl.py and config.py: the pure parts of process_date                     *)

\* Config.data_base_path
DataBasePath == "data"

\* str(x) of a field value
PyStr(x) == IF x.t = "none" THEN "None" ELSE x.v

\* listing.get("id", listing.get("listing_id", "unknown")), then str()
ResolveId(listing) ==
    IF listing.id # Absent THEN PyStr(listing.id)
    ELSE IF listing.listing_id # Absent THEN PyStr(listing.listing_id)
    ELSE "unknown"

\* the position of listing_id among the keys of grouped, 0 if it is not one
RECURSIVE KeyIndex(_, _, _)
KeyIndex(g, listing_id, i) ==
    IF i > Len(g) THEN 0
    ELSE IF g[i].id = listing_id THEN i
    ELSE KeyIndex(g, listing_id, i + 1)

\* mutant: every record opens a group of its own
AddToGroupNoMerge(g, listing) ==
    Append(g, [id |-> ResolveId(listing), rows |-> <<listing>>])

\* one iteration of the grouping loop: grouped[listing_id].append(listing),
\* after grouped[listing_id] = [] for a new key
AddToGroup(g, listing) ==
    LET listing_id == ResolveId(listing)
        k == KeyIndex(g, listing_id, 1)
    IN IF k = 0
       THEN Append(g, [id |-> listing_id, rows |-> <<listing>>])
       ELSE [g EXCEPT ![k].rows = Append(@, listing)]

\* _group_listings_by_id: the dict, as its items in insertion order
RECURSIVE GroupFrom(_, _, _)
GroupFrom(g, ls, i) ==
    IF i > Len(ls) THEN g ELSE GroupFrom(AddToGroup(g, ls[i]), ls, i + 1)

GroupListingsById(ls) == GroupFrom(<<>>, ls, 1)

\* the keys of raw records, in the order the columns of pd.DataFrame take
FieldOrder == <<"id", "listing_id", "price", "price_per_night">>

\* column_mapping, applied by the rename loop
RenameColumn(c) ==
    CASE c = "id" -> "listing_id"
      [] c = "name" -> "title"
      [] c = "price_per_night" -> "price"
      [] c = "address" -> "location"
      [] c = "room_type" -> "property_type"
      [] c = "created_at" -> "listing_date"
      [] c = "updated_at" -> "last_updated"
      [] OTHER -> c

RequiredColumns == <<"listing_id", "title", "price">>

\* mutant: the schema of the empty DataFrame is the required columns only
CanonicalColumnsRequiredOnly == <<"listing_id", "title", "price">>

\* the schema of the empty DataFrame
CanonicalColumns ==
    <<"listing_id", "title", "price", "location", "bedrooms", "bathrooms",
      "property_type", "listing_date", "last_updated", "amenities", "description",
      "host_id", "availability", "minimum_stay", "maximum_stay", "instant_book",
      "cancellation_policy", "review_score", "review_count", "latitude", "longitude">>

InSeq(x, sq) == \E i \in 1..Len(sq) : sq[i] = x
Count(x, sq) == Cardinality({i \in 1..Len(sq) : sq[i] = x})

\* pd.DataFrame(listings).columns: every key some record carries
FrameColumns(ls) ==
    SelectSeq(FieldOrder, LAMBDA k : \E i \in 1..Len(ls) : ls[i][k] # Absent)

RECURSIVE MapRename(_)
MapRename(cols) ==
    IF cols = <<>> THEN <<>> ELSE <<RenameColumn(Head(cols))>> \o MapRename(Tail(cols))

\* "if col not in df.columns: df[col] = None" for each required column
RECURSIVE AddRequired(_, _)
AddRequired(cols, i) ==
    IF i > Len(RequiredColumns) THEN cols
    ELSE AddRequired(IF InSeq(RequiredColumns[i], cols) THEN cols
                     ELSE Append(cols, RequiredColumns[i]), i + 1)

\* _transform_listing_data.  The DataFrame is its column labels and its rows;
\* raises: a label that the renames made twice turns df["price"] into a
\* two-dimensional frame, which pd.to_numeric rejects with TypeError.
TransformListingData(ls) ==
    IF ls = <<>>
    THEN [columns |-> CanonicalColumns, rows |-> <<>>, raises |-> FALSE]
    ELSE LET cols == AddRequired(MapRename(FrameColumns(ls)), 1)
         IN [columns |-> cols \o <<"etl_processed_at", "etl_source">>,
             rows |-> ls,
             raises |-> Count("price", cols) > 1]

\* DataFrame.empty
IsEmptyFrame(df) == Len(df.rows) = 0 \/ Len(df.columns) = 0

\* Config.get_raw_data_path: os.path.join(base, "raw", listing_id, f"{date}.parquet")
GetRawDataPath(listing_id, d) ==
    [dir |-> <<DataBasePath, "raw", listing_id>>, stem |-> d, ext |-> "parquet"]

\* mutant: the listing directories sit directly under the data root
ListingDirFlat(listing_id) == <<DataBasePath>> \o <<listing_id>>

\* _create_directory_structure: Path(base) / "raw" / listing_id
ListingDir(listing_id) == <<DataBasePath>> \o <<"raw">> \o <<listing_id>>

\* _write_parquet_file: listing_dir / f"{date}.parquet"
ParquetFilePath(listing_id, d) ==
    [dir |-> ListingDir(listing_id), stem |-> d, ext |-> "parquet"]

\* mkdir(parents=True, exist_ok=True)
Mkdir(ds, dir) == ds \cup {SubSeq(dir, 1, k) : k \in 1..Len(dir)}

\* mutant: the rows are appended to the file that is there
WriteFileAppend(fs, path, content) ==
    [p \in DOMAIN fs \cup {path} |->
        IF p # path THEN fs[p]
        ELSE IF path \in DOMAIN fs
             THEN [content EXCEPT !.rows = fs[path].rows \o content.rows]
             ELSE content]

\* the file tree with the file at path replaced by content
WriteFile(fs, path, content) ==
    [p \in DOMAIN fs \cup {path} |-> IF p = path THEN content ELSE fs[p]]

\* the file tree without the file at path
RemoveFile(fs, path) == [p \in DOMAIN fs \ {path} |-> fs[p]]

\* a date string, by its year, month and day fields
IsLeap(y) == (y % 4 = 0 /\ y % 100 # 0) \/ y % 400 = 0

DaysInMonth(y, m) ==
    IF m = 2 THEN (IF IsLeap(y) THEN 29 ELSE 28)
    ELSE IF m \in {4, 6, 9, 11} THEN 30 ELSE 31

\* datetime.strptime(date, "%Y-%m-%d") does not raise ValueError
IsValidDate(d) ==
    /\ d[1] \in 1..9999
    /\ d[2] \in 1..12
    /\ d[3] \in 1..DaysInMonth(d[1], d[2])

\* the dict process_date returns
ResultRecord(d, total, unique, written, paths) ==
    [date |-> d, total_listings |-> total, unique_listing_ids |-> unique,
     files_written |-> written, file_paths |-> paths, base_path |-> DataBasePath]

NoResult == [kind |-> "none", value |-> ResultRecord(<<0, 0, 0>>, 0, 0, 0, <<>>)]

-----------------------------------------------------------------------------
(* wheelhouse.py: _make_request under the tenacity retry policy             *)

\* wait_exponential: multiplier * 2^(attempt-1), clamped to [min, max]
WaitExponential(n) == Max(Max(0, WaitMin), Min(WaitMultiplier * Pow2(n - 1), WaitMax))

\* get_listings: the params of a page request
Params(limit, off) == [limit |-> Min(limit, ApiLimitCap), offset |-> off]

\* mutant: the exception is logged and swallowed
PropagateSwallowed(err) ==
    /\ error' = err
    /\ fetched' = NoValue
    /\ pc' = IF caller = "client" THEN "fetch_returned" ELSE "returned"

\* an exception leaves get_all_listings_for_date (except: log, raise) and
\* reaches its caller; process_date logs it and raises it again
Propagate(err) ==
    /\ error' = err
    /\ fetched' = NoValue
    /\ pc' = IF caller = "client" THEN "fetch_raised" ELSE "raised"

\* mutant: the policy retries whatever _make_request raises
RetriesAnyError(err) == err \in {"WheelhouseRateLimitError", "WheelhouseAPIError"}

\* the retry predicate: retry_if_exception_type(WheelhouseRateLimitError)
Retries(err) == err = "WheelhouseRateLimitError"

\* mutant: the policy gives up after the second attempt
StopsEarly(n) == n >= 2

\* mutant: the policy allows one attempt more
StopsLate(n) == n > StopAfterAttempt

\* stop_after_attempt
Stops(n) == n >= StopAfterAttempt

\* one attempt raised err inside _make_request: tenacity retries or re-raises
AttemptRaised(err) ==
    IF Retries(err) /\ ~Stops(attempt)
    THEN /\ slept' = Append(slept, WaitExponential(attempt))
         /\ attempt' = attempt + 1
         /\ UNCHANGED <<pc, error, fetched>>
    ELSE /\ Propagate(err)
         /\ UNCHANGED <<attempt, slept>>

\* the exception _make_request raises for a response status >= 400
StatusError(status) ==
    IF status = 429 THEN "WheelhouseRateLimitError" ELSE "WheelhouseAPIError"

\* session.request returned a response with status >= 400
ErrorResponse(status) ==
    /\ UNCHANGED <<rangeVars, unitVars, healthVars>>
    /\ pc = "fetching"
    /\ status >= 400
    /\ responses' = Append(responses, Response(status))
    /\ AttemptRaised(StatusError(status))
    /\ UNCHANGED <<caller, batch_size, offset, total_fetched, all_listings,
                   requests, served, lastPage>>
    /\ UNCHANGED etlVars

\* session.request raised requests.exceptions.RequestException
RequestException ==
    /\ UNCHANGED <<rangeVars, unitVars, healthVars>>
    /\ pc = "fetching"
    /\ responses' = Append(responses, Raised)
    /\ AttemptRaised("WheelhouseAPIError")
    /\ UNCHANGED <<caller, batch_size, offset, total_fetched, all_listings,
                   requests, served, lastPage>>
    /\ UNCHANGED etlVars

-----------------------------------------------------------------------------
(* wheelhouse.py: get_all_listings_for_date                                 *)

\* the call starts: the first page request is issued
GetAllListingsForDate(who, bs) ==
    /\ pc' = "fetching"
    /\ caller' = who
    /\ batch_size' = bs
    /\ offset' = 0
    /\ total_fetched' = 0
    /\ all_listings' = <<>>
    /\ attempt' = 1
    /\ slept' = <<>>
    /\ requests' = <<Params(bs, 0)>>
    /\ responses' = <<>>
    /\ UNCHANGED <<served, lastPage, error, fetched>>

\* mutant: the loop goes on when the count equals the total
TotalReachedStrict(fetchedCount, total) == fetchedCount > total

\* "if total_fetched >= total_available: break"
TotalReached(fetchedCount, total) == fetchedCount >= total

\* all_listings.extend(listings)
Extend(acc, page) == acc \o page

\* process_date after the fetch: the early return on no listings, or the
\* grouping, after which the loop over the groups begins
AfterFetch(ls) ==
    /\ listings' = ls
    /\ IF Len(ls) = 0
       THEN /\ result' = Value(ResultRecord(date, 0, -1, 0, <<>>))
            /\ pc' = "returned"
            /\ UNCHANGED <<grouped, gi>>
       ELSE /\ grouped' = GroupListingsById(ls)
            /\ gi' = 1
            /\ pc' = "processing"
            /\ UNCHANGED result
    /\ file_paths' = <<>>
    /\ files_written' = 0
    /\ UNCHANGED <<date, dry_run, files, dirs, outcomes, fs0>>

\* get_all_listings_for_date returns acc.  A client keeps the call's final
\* state in view; in process_date the locals of the call are gone and only
\* the returned list is left.
FetchReturns(acc, count, off, page) ==
    IF caller = "client"
    THEN /\ fetched' = Value(acc)
         /\ pc' = "fetch_returned"
         /\ all_listings' = acc
         /\ total_fetched' = count
         /\ offset' = off
         /\ lastPage' = page
         /\ responses' = Append(responses, Response(200))
         /\ UNCHANGED <<attempt, slept, requests>>
         /\ UNCHANGED etlVars
    ELSE /\ AfterFetch(acc)
         /\ all_listings' = <<>>
         /\ total_fetched' = 0
         /\ offset' = 0
         /\ lastPage' = NoPage
         /\ responses' = <<>>
         /\ attempt' = 0
         /\ slept' = <<>>
         /\ requests' = <<>>
         /\ UNCHANGED fetched

\* the loop body of get_all_listings_for_date on the page data
LoopBody(page) ==
    IF Len(page.listings) = 0
    THEN FetchReturns(all_listings, total_fetched, offset, page)
    ELSE IF TotalReached(total_fetched + Len(page.listings), page.total)
    THEN FetchReturns(Extend(all_listings, page.listings),
                      total_fetched + Len(page.listings), offset + batch_size, page)
    ELSE /\ all_listings' = Extend(all_listings, page.listings)
         /\ total_fetched' = total_fetched + Len(page.listings)
         /\ offset' = offset + batch_size
         /\ requests' = Append(requests, Params(batch_size, offset + batch_size))
         /\ attempt' = 1
         /\ slept' = <<>>
         /\ responses' = <<>>
         /\ lastPage' = page
         /\ UNCHANGED <<pc, fetched>>
         /\ UNCHANGED etlVars

\* session.request returned a response with status < 400 whose JSON body is
\* {listings, total} (a missing total reads as 0): get_listings returns it and
\* the loop body runs
PageReceived(page_listings, total) ==
    /\ UNCHANGED <<rangeVars, unitVars, healthVars>>
    /\ pc = "fetching"
    /\ Len(served) + Len(page_listings) <= MaxFetched
    /\ served' = served \o page_listings
    /\ LoopBody([listings |-> page_listings, total |-> total])
    /\ UNCHANGED <<caller, batch_size, error>>

\* session.request returned a response with status < 400 whose body is not
\* JSON: response.json() raises in get_listings, outside _make_request
InvalidPayload ==
    /\ UNCHANGED <<rangeVars, unitVars, healthVars>>
    /\ pc = "fetching"
    /\ responses' = Append(responses, InvalidBody)
    /\ Propagate("JSONDecodeError")
    /\ UNCHANGED <<caller, batch_size, offset, total_fetched, all_listings, attempt,
                   slept, requests, served, lastPage>>
    /\ UNCHANGED etlVars

\* a client calls get_all_listings_for_date(date, batch_size)
ClientCall(bs) ==
    /\ UNCHANGED <<rangeVars, unitVars, healthVars>>
    /\ pc = "idle"
    /\ GetAllListingsForDate("client", bs)
    /\ UNCHANGED etlVars

-----------------------------------------------------------------------------
(* The client alone: get_all_listings_for_date called with a batch size     *)

BatchSizes == {1, 50, 150}
ErrorStatuses == {400, 429, 500}
Totals == 0..(MaxFetched + 1)

-----------------------------------------------------------------------------
(* etl.py: process_date.  The processor runs against the API                *)
(* (config.wheelhouse_mock is false).                                       *)

\* how _write_parquet_file can end: it returns the path, mkdir raises,
\* pa.Table.from_pandas raises, or pq.write_table raises (and removes the
\* file it was writing)
WriteOutcomes == {"ok", "mkdir_error", "convert_error", "write_error"}

\* mutant: the file is written in a dry run too
WritesAlways(dry) == TRUE

\* "if not dry_run:"
Writes(dry) == ~dry

\* mutant: every attempted write is counted
CountAttempted(n, how) == IF how \in WriteOutcomes THEN n + 1 ELSE n

\* "files_written += 1", reached when _write_parquet_file returned
CountWritten(n, how) == IF how = "ok" THEN n + 1 ELSE n

\* how the handling of one group ends, given how its write would end
GroupOutcome(df, dry, outcome) ==
    IF df.raises THEN "transform_error"
    ELSE IF IsEmptyFrame(df) THEN "empty"
    ELSE IF ~Writes(dry) THEN "dry_run"
    ELSE outcome

\* process_date(date, dry_run) is called: the date is validated, then the
\* fetch begins with the configured batch size
ProcessDate(d, dry) ==
    /\ UNCHANGED <<rangeVars, unitVars, healthVars>>
    /\ pc = "idle"
    /\ date' = d
    /\ dry_run' = dry
    /\ IF IsValidDate(d)
       THEN GetAllListingsForDate("process_date", EtlBatchSize)
       ELSE /\ pc' = "raised"
            /\ error' = "ValueError"
            /\ UNCHANGED <<caller, batch_size, offset, total_fetched, all_listings,
                           attempt, slept, requests, responses, served, lastPage,
                           fetched>>
    /\ fs0' = [files |-> files, dirs |-> dirs]
    /\ UNCHANGED <<listings, grouped, gi, file_paths, files_written, files, dirs,
                   outcomes, result>>

\* one iteration of the loop over grouped_listings.items(): transform, append
\* the expected path, write unless dry_run; an exception of the iteration is
\* logged and the loop continues.  After the last group the result is built.
ProcessGroup(outcome) ==
    /\ UNCHANGED <<rangeVars, unitVars, healthVars>>
    /\ pc = "processing"
    /\ LET listing_id == grouped[gi].id
           df == TransformListingData(grouped[gi].rows)
           how == GroupOutcome(df, dry_run, outcome)
           listed == how \notin {"transform_error", "empty"}
           expected_path == GetRawDataPath(listing_id, date)
           actual_path == ParquetFilePath(listing_id, date)
           paths == IF listed THEN Append(file_paths, expected_path) ELSE file_paths
           written == CountWritten(files_written, how)
       IN /\ file_paths' = paths
          /\ files_written' = written
          /\ dirs' = IF how \in {"ok", "convert_error", "write_error"}
                     THEN Mkdir(dirs, ListingDir(listing_id)) ELSE dirs
          /\ files' = CASE how = "ok" -> WriteFile(files, actual_path, df)
                        [] how = "write_error" -> RemoveFile(files, actual_path)
                        [] OTHER -> files
          /\ outcomes' = Append(outcomes, how)
          /\ gi' = gi + 1
          /\ IF gi = Len(grouped)
             THEN /\ result' = Value(ResultRecord(date, Len(listings), Len(grouped),
                                                  written, paths))
                  /\ pc' = "returned"
             ELSE UNCHANGED <<pc, result>>
    /\ UNCHANGED <<date, dry_run, listings, grouped, fs0>>
    /\ UNCHANGED fetchVarsButPc

\* the dates process_date is called with: a valid one and one that
\* strptime rejects
Day1 == <<2025, 1, 1>>
BadDate == <<2025, 2, 30>>
Dates == {Day1, BadDate}

NoFiles == [p \in {} |-> 0]

\* the trees a run can start from: nothing yet, or the partition an earlier
\* run wrote for listing "1" on Day1
PriorTrees ==
    { [files |-> NoFiles, dirs |-> {}],
      [files |-> WriteFile(NoFiles, ParquetFilePath("1", Day1),
                           TransformListingData(<<L4>>)),
       dirs |-> Mkdir({}, ListingDir("1"))] }

-----------------------------------------------------------------------------
(* etl.py: process_date_range.  process_date is taken by its outcome: the   *)
(* counts of the dict it returns, or an exception.                          *)

\* datetime.strptime(s, "%Y-%m-%d")
Strptime(s) == [year |-> s[1], month |-> s[2], day |-> s[3]]

\* dt.strftime("%Y-%m-%d")
Strftime(dt) == <<dt.year, dt.month, dt.day>>

\* mutant: the order of the two dates is not checked
DateAfterNever(a, b) == FALSE

\* dt1 > dt2 on datetimes at midnight
DateAfter(a, b) ==
    \/ a.year > b.year
    \/ a.year = b.year /\ a.month > b.month
    \/ a.year = b.year /\ a.month = b.month /\ a.day > b.day

\* datetime.replace(day=n) raises ValueError unless n is a day of the month
ReplaceDayRaises(dt, n) == n \notin 1..DaysInMonth(dt.year, dt.month)

ReplaceDay(dt, n) == [dt EXCEPT !.day = n]

\* results[key] = entry on a dict: a new key goes last, a key that is there
\* keeps its place
RECURSIVE DictIndex(_, _, _)
DictIndex(dict, key, i) ==
    IF i > Len(dict) THEN 0
    ELSE IF dict[i].key = key THEN i
    ELSE DictIndex(dict, key, i + 1)

DictSet(dict, key, entry) ==
    LET k == DictIndex(dict, key, 1) IN
    IF k = 0 THEN Append(dict, [key |-> key, entry |-> entry])
    ELSE [dict EXCEPT ![k].entry = entry]

\* what one process_date call gives back to process_date_range
DayRaised == [error |-> TRUE, total_listings |-> 0, files_written |-> 0]
DayReturned(n, w) == [error |-> FALSE, total_listings |-> n, files_written |-> w]

DayOutcomes(dry) ==
    {DayRaised, DayReturned(0, 0), DayReturned(2, 0)}
        \cup (IF dry THEN {} ELSE {DayReturned(2, 2)})

\* the summary dict
Summary(rs, listings_sum, files_sum) ==
    [total_dates_processed |-> Cardinality({i \in 1..Len(rs) : ~rs[i].entry.error}),
     total_dates_failed |-> Cardinality({i \in 1..Len(rs) : rs[i].entry.error}),
     total_listings |-> listings_sum,
     total_files_written |-> files_sum,
     results_by_date |-> rs]

NoSummary == [kind |-> "none", value |-> Summary(<<>>, 0, 0)]

\* process_date_range(start_date, end_date, dry_run) is called: both dates
\* are parsed and their order is checked
ProcessDateRange(s, e, dry) ==
    /\ rpc = "idle"
    /\ start_date' = s
    /\ end_date' = e
    /\ range_dry' = dry
    /\ IF ~IsValidDate(s) \/ ~IsValidDate(e) \/ DateAfter(Strptime(s), Strptime(e))
       THEN /\ rpc' = "raised"
            /\ rerror' = "ValueError"
            /\ UNCHANGED current_dt
       ELSE /\ rpc' = "looping"
            /\ current_dt' = Strptime(s)
            /\ UNCHANGED rerror
    /\ calls' = <<>>
    /\ results' = <<>>
    /\ total_listings' = 0
    /\ total_files' = 0
    /\ UNCHANGED summary
    /\ UNCHANGED <<fetchVars, etlVars, unitVars, healthVars>>

\* one iteration of the while loop: process_date for the current day, its
\* result or its error recorded, then the move to the next day; when the
\* loop condition fails the summary is built and returned
RangeDay(outcome) ==
    /\ rpc = "looping"
    /\ LET date_str == Strftime(current_dt)
           rs == DictSet(results, date_str, outcome)
           ls == IF outcome.error THEN total_listings
                 ELSE total_listings + outcome.total_listings
           fs == IF outcome.error THEN total_files
                 ELSE total_files + outcome.files_written
       IN /\ calls' = Append(calls, date_str)
          /\ results' = rs
          /\ total_listings' = ls
          /\ total_files' = fs
          /\ IF ReplaceDayRaises(current_dt, current_dt.day + 1)
             THEN /\ rpc' = "raised"
                  /\ rerror' = "ValueError"
                  /\ UNCHANGED <<current_dt, summary>>
             ELSE /\ current_dt' = ReplaceDay(current_dt, current_dt.day + 1)
                  /\ IF DateAfter(ReplaceDay(current_dt, current_dt.day + 1),
                                  Strptime(end_date))
                     THEN /\ summary' = Value(Summary(rs, ls, fs))
                          /\ rpc' = "returned"
                     ELSE UNCHANGED <<rpc, summary>>
                  /\ UNCHANGED rerror
    /\ UNCHANGED <<start_date, end_date, range_dry>>
    /\ UNCHANGED <<fetchVars, etlVars, unitVars, healthVars>>

\* a calendar day and the day after it
NextDay(d) ==
    IF d[3] < DaysInMonth(d[1], d[2]) THEN <<d[1], d[2], d[3] + 1>>
    ELSE IF d[2] < 12 THEN <<d[1], d[2] + 1, 1>>
    ELSE <<d[1] + 1, 1, 1>>

RECURSIVE DaysFrom(_, _)
DaysFrom(d, n) == IF n = 0 THEN <<>> ELSE <<d>> \o DaysFrom(NextDay(d), n - 1)

\* the start dates of the ranges: inside a month, at the end of a month, of
\* February in a leap year and of the year; and a string strptime rejects
RangeStarts ==
    {<<2025, 1, 1>>, <<2025, 1, 30>>, <<2024, 2, 28>>, <<2024, 12, 31>>, <<2025, 2, 30>>}

\* the end dates: up to MaxRangeDays days after a start, or a day before it
RangeEnds(s) ==
    IF IsValidDate(s)
    THEN {DaysFrom(s, n + 1)[n + 1] : n \in 0..MaxRangeDays} \cup {<<s[1] - 1, s[2], 1>>}
    ELSE {s}

-----------------------------------------------------------------------------
(* etl.py: _write_parquet_file and _transform_listing_data called on their  *)
(* own, as the tests call them                                              *)

MaxWrites == 2
MaxRecords == 3

Day2 == <<2025, 1, 2>>

\* the tables written: one row, and two rows with another set of columns
WriteFrames ==
    {TransformListingData(<<L1>>), TransformListingData(<<L3>>),
     TransformListingData(<<L3, L4>>)}

\* _write_parquet_file(df, listing_id, date): the directory is made, the
\* table converted and written; the call returns the path or raises
WriteParquetFile(df, listing_id, d, outcome) ==
    /\ pc = "idle"
    /\ rpc = "idle"
    /\ hpc = "idle"
    /\ Len(writes) < MaxWrites
    /\ LET file_path == ParquetFilePath(listing_id, d)
       IN /\ dirs' = IF outcome = "mkdir_error" THEN dirs
                     ELSE Mkdir(dirs, ListingDir(listing_id))
          /\ files' = CASE outcome = "ok" -> WriteFile(files, file_path, df)
                        [] outcome = "write_error" -> RemoveFile(files, file_path)
                        [] OTHER -> files
          /\ writes' = Append(writes, [path |-> file_path, df |-> df, how |-> outcome])
    /\ UNCHANGED <<date, dry_run, listings, grouped, gi, file_paths, files_written,
                   outcomes, fs0, result>>
    /\ UNCHANGED <<records, table>>
    /\ UNCHANGED <<fetchVars, rangeVars, healthVars>>

NoTable == [kind |-> "none", value |-> TransformListingData(<<>>)]

\* _transform_listing_data(listings) returns the DataFrame or raises
TransformCall(ls) ==
    /\ pc = "idle"
    /\ rpc = "idle"
    /\ hpc = "idle"
    /\ records' = ls
    /\ table' = LET df == TransformListingData(ls)
                IN [kind |-> IF df.raises THEN "raised" ELSE "value", value |-> df]
    /\ UNCHANGED writes
    /\ UNCHANGED <<fetchVars, etlVars, rangeVars, healthVars>>

UnitIdle ==
    /\ writes = <<>>
    /\ records = <<>>
    /\ table = NoTable

-----------------------------------------------------------------------------
(* health.py: HealthMonitor.  A date string is written by its year, month   *)
(* and day fields, a date object is the record of them.                     *)

\* an optional integer and an optional date string (None when not some)
NoneInt == [some |-> FALSE, v |-> 0]
SomeInt(n) == [some |-> TRUE, v |-> n]
NoneDate == [some |-> FALSE, v |-> <<0, 0, 0>>]
SomeDate(d) == [some |-> TRUE, v |-> d]

\* the "unknown" sentinel of a FileRecord's listing_id and date
UnknownDate == <<0, 0, 0>>
UnknownId == "unknown"

\* one entry of files_info
FileRecord(listing_id, d, rows, cols) ==
    [listing_id |-> listing_id, date |-> d, row_count |-> rows, columns |-> cols]

\* date.toordinal(): the days before the year, before the month, and the day
DaysBeforeYear(y) ==
    (y - 1) * 365 + ((y - 1) \div 4) - ((y - 1) \div 100) + ((y - 1) \div 400)

RECURSIVE DaysBeforeMonth(_, _)
DaysBeforeMonth(y, m) ==
    IF m <= 1 THEN 0 ELSE DaysBeforeMonth(y, m - 1) + DaysInMonth(y, m - 1)

ToOrdinal(dt) == DaysBeforeYear(dt.year) + DaysBeforeMonth(dt.year, dt.month) + dt.day

\* date + timedelta(days=1) and date - timedelta(days=1)
DateSucc(dt) ==
    IF dt.day < DaysInMonth(dt.year, dt.month) THEN [dt EXCEPT !.day = @ + 1]
    ELSE IF dt.month < 12 THEN [dt EXCEPT !.month = @ + 1, !.day = 1]
    ELSE [year |-> dt.year + 1, month |-> 1, day |-> 1]

DatePred(dt) ==
    IF dt.day > 1 THEN [dt EXCEPT !.day = @ - 1]
    ELSE IF dt.month > 1
         THEN [dt EXCEPT !.month = @ - 1, !.day = DaysInMonth(dt.year, dt.month - 1)]
    ELSE [year |-> dt.year - 1, month |-> 12, day |-> 31]

\* date - timedelta(days=n)
RECURSIVE MinusDays(_, _)
MinusDays(dt, n) == IF n = 0 THEN dt ELSE MinusDays(DatePred(dt), n - 1)

\* date_objects: the date strings that strptime accepts, as date objects
DateObjects(dates) == {Strptime(d) : d \in {x \in dates : IsValidDate(x)}}

\* date_objects[0] and date_objects[-1] after date_objects.sort()
Earliest(ds) == CHOOSE a \in ds : \A b \in ds : ToOrdinal(a) <= ToOrdinal(b)
Latest(ds) == CHOOSE a \in ds : \A b \in ds : ToOrdinal(a) >= ToOrdinal(b)

\* mutant: today is one of the days checked
RecentDaysWithToday == 0..6

\* range(1, 8)
RecentDays == 1..7

\* the loop over the last 7 days: the days that are not in date_objects,
\* from yesterday backwards
RECURSIVE MissingIn(_, _, _)
MissingIn(ds, now, S) ==
    IF S = {} THEN <<>>
    ELSE LET i == CHOOSE x \in S : \A y \in S : x <= y
         IN (IF MinusDays(now, i) \notin ds
             THEN <<Strftime(MinusDays(now, i))>> ELSE <<>>)
            \o MissingIn(ds, now, S \ {i})

MissingRecent(ds, now) == MissingIn(ds, now, RecentDays)

\* the while loop from start_date to end_date: the days not in date_objects
RECURSIVE GapsFrom(_, _, _)
GapsFrom(ds, current_date, end) ==
    IF ToOrdinal(current_date) > ToOrdinal(end) THEN <<>>
    ELSE (IF current_date \notin ds THEN <<Strftime(current_date)>> ELSE <<>>)
         \o GapsFrom(ds, DateSucc(current_date), end)

\* data_gaps[:10]
GapsShown == 10

\* mutant: the list is not cut
TruncateNot(sq, n) == sq

\* sq[:n]
Truncate(sq, n) == SubSeq(sq, 1, IF Len(sq) < n THEN Len(sq) ELSE n)

\* the dict check_data_freshness returns; the early returns carry no
\* total_gaps key
Freshness(has, latest, since, missing, gaps, total) ==
    [has_data |-> has, latest_date |-> latest, days_since_latest |-> since,
     missing_recent_dates |-> missing, data_gaps |-> gaps, total_gaps |-> total]

NoFreshness == Freshness(FALSE, NoneDate, NoneInt, <<>>, <<>>, NoneInt)

\* mutant: a set without dates still counts as data
HasDataAlways(dates) == TRUE

\* "if not dates" fails
HasData(dates) == dates # {}

\* check_data_freshness(files_info), with datetime.now().date() = now
CheckFreshness(info, now) ==
    LET dates == {info[i].date : i \in {j \in 1..Len(info) : info[j].date # UnknownDate}}
        date_objects == DateObjects(dates)
    IN IF ~HasData(dates)
       THEN Freshness(FALSE, NoneDate, NoneInt, <<>>, <<>>, NoneInt)
       ELSE IF date_objects = {}
       THEN Freshness(TRUE, NoneDate, NoneInt, <<>>, <<>>, NoneInt)
       ELSE LET latest_date == Latest(date_objects)
                data_gaps == IF Cardinality(date_objects) > 1
                             THEN GapsFrom(date_objects, Earliest(date_objects),
                                           latest_date)
                             ELSE <<>>
            IN Freshness(TRUE, SomeDate(Strftime(latest_date)),
                         SomeInt(ToOrdinal(now) - ToOrdinal(latest_date)),
                         MissingRecent(date_objects, now),
                         Truncate(data_gaps, GapsShown),
                         SomeInt(Len(data_gaps)))

\* scan_data_files: one FileRecord for each parquet file under raw/, taken
\* from its path raw/{listing_id}/{date}.parquet and its table
RawDataPath == <<DataBasePath, "raw">>

\* the bytes of a file that pd.read_parquet rejects
CorruptFile == [columns |-> <<>>, rows |-> <<>>, raises |-> TRUE]

\* the row count of a file that could not be read
UnreadableRows == -1

\* mutant: a file that cannot be read is left out of the scan
ReadFileOrSkip(listing_id, d, content) ==
    IF content = CorruptFile THEN {}
    ELSE {FileRecord(listing_id, d, Len(content.rows), content.columns)}

\* the file_info of one file: pd.read_parquet gives the rows and the
\* columns, or raises and the record carries row_count -1 and no columns
ReadFile(listing_id, d, content) ==
    IF content = CorruptFile THEN {FileRecord(listing_id, d, UnreadableRows, <<>>)}
    ELSE {FileRecord(listing_id, d, Len(content.rows), content.columns)}

ScanRecords(fs, ds) ==
    IF RawDataPath \notin ds THEN {}
    ELSE UNION {ReadFile(p.dir[Len(p.dir)], p.stem, fs[p]) :
            p \in {q \in DOMAIN fs : /\ q.ext = "parquet"
                                      /\ Len(q.dir) > Len(RawDataPath)
                                      /\ SubSeq(q.dir, 1, Len(RawDataPath)) = RawDataPath}}

\* the lists rglob can give: the records in any order
RECURSIVE Orderings(_)
Orderings(rs) ==
    IF rs = {} THEN {<<>>}
    ELSE UNION {{<<r>> \o sq : sq \in Orderings(rs \ {r})} : r \in rs}

Scans(fs, ds) == Orderings(ScanRecords(fs, ds))

\* sum(f["row_count"] for f in files_info if keep(f["row_count"]))
RECURSIVE SumRowCounts(_, _)
SumRowCounts(info, i) ==
    IF i > Len(info) THEN 0
    ELSE (IF info[i].row_count > 0 THEN info[i].row_count ELSE 0)
         + SumRowCounts(info, i + 1)

\* round(a / b, 1), in tenths: to the nearest tenth, a tie to the even one
\* (the quotients of the model that end in 5 hundredths are exact in binary)
RoundTenths(a, b) ==
    LET q == (10 * a) \div b
        r == (10 * a) % b
    IN IF 2 * r > b THEN q + 1
       ELSE IF 2 * r < b THEN q
       ELSE IF q % 2 = 0 THEN q ELSE q + 1

\* valid_row_counts: the entries with row_count > 0
ValidRowCounts(info) == {i \in 1..Len(info) : info[i].row_count > 0}

\* calculate_summary_stats: the counts of the summary; avg_rows_per_file is
\* in tenths
SummaryStats(info) ==
    [total_files |-> Len(info),
     total_rows |-> SumRowCounts(info, 1),
     unique_listings |->
        Cardinality({info[i].listing_id : i \in 1..Len(info)} \ {UnknownId}),
     avg_rows_per_file |->
        IF ValidRowCounts(info) = {} THEN 0
        ELSE RoundTenths(SumRowCounts(info, 1), Cardinality(ValidRowCounts(info)))]

NoStats == SummaryStats(<<>>)

\* calculate_summary_stats(files_info) called on a list of FileRecords
CalculateSummaryStats(info) ==
    /\ hpc = "idle"
    /\ pc = "idle"
    /\ rpc = "idle"
    /\ files_info' = info
    /\ summary_stats' = SummaryStats(info)
    /\ hpc' = "summarised"
    /\ UNCHANGED <<today, freshness, report, quick, output_path, command, exit_code>>
    /\ UNCHANGED <<fetchVars, etlVars, rangeVars, unitVars>>

\* an issue string, by its text and the number formatted into it
Issue(text, n) == [text |-> text, n |-> n]

\* the thresholds of the status rules
StaleAfter == 2
MissingAllowed == 3

\* mutant: data of exactly two days counts as old
IsStaleFromThreshold(since) == since.some /\ since.v # 0 /\ since.v >= StaleAfter

\* freshness["days_since_latest"] and freshness["days_since_latest"] > 2
IsStale(since) == since.some /\ since.v # 0 /\ since.v > StaleAfter

\* the if / elif chain of generate_report: the status and the issues
HealthStatus(stats, fr) ==
    IF stats.total_files = 0
    THEN [health_status |-> "critical", issues |-> <<Issue("No data files found", 0)>>]
    ELSE IF IsStale(fr.days_since_latest)
    THEN [health_status |-> "warning",
          issues |-> <<Issue("Data is {} days old", fr.days_since_latest.v)>>]
    ELSE IF Len(fr.missing_recent_dates) > MissingAllowed
    THEN [health_status |-> "warning",
          issues |-> <<Issue("Multiple recent dates missing", 0)>>]
    ELSE [health_status |-> "healthy", issues |-> <<>>]

\* the grouping loop of analyze_listing_coverage from entry i on: g is
\* listings_by_id, in dict (insertion) order; the ids of skipped are passed
\* over
RECURSIVE ListingsByIdFrom(_, _, _, _)
ListingsByIdFrom(g, info, i, skipped) ==
    IF i > Len(info) THEN g
    ELSE LET f == info[i]
             k == KeyIndex(g, f.listing_id, 1)
         IN IF f.listing_id \in skipped THEN ListingsByIdFrom(g, info, i + 1, skipped)
            ELSE IF k = 0
            THEN ListingsByIdFrom(Append(g, [id |-> f.listing_id, rows |-> <<f>>]),
                                  info, i + 1, skipped)
            ELSE ListingsByIdFrom([g EXCEPT ![k].rows = Append(@, f)],
                                  info, i + 1, skipped)

\* mutant: the files of "unknown" make a listing like any other
ListingsByIdWithUnknown(info) == ListingsByIdFrom(<<>>, info, 1, {})

\* listings_by_id: the files of each listing id, "unknown" left out
ListingsById(info) == ListingsByIdFrom(<<>>, info, 1, {UnknownId})

\* a date string as a sort key: "unknown" sorts as "0000-00-00", and date
\* strings compare as their digits do
DateKey(d) == IF d = UnknownDate THEN 0 ELSE d[1] * 10000 + d[2] * 100 + d[3]

\* sorted(..., key, reverse=True) of the entries from i on, put into the
\* sorted list acc: the sort is stable, equal keys keep their order
RECURSIVE SortedReverse(_, _, _)
SortedReverse(acc, sq, i) ==
    IF i > Len(sq) THEN acc
    ELSE LET before == Cardinality({j \in 1..Len(acc) : acc[j].key >= sq[i].key})
         IN SortedReverse(SubSeq(acc, 1, before) \o <<sq[i]>>
                              \o SubSeq(acc, before + 1, Len(acc)),
                          sq, i + 1)

\* max(files, key=...): the first file with the largest date key
RECURSIVE LatestFile(_, _, _)
LatestFile(rows, i, best) ==
    IF i > Len(rows) THEN best
    ELSE LatestFile(rows, i + 1,
                    IF DateKey(rows[i].date) > DateKey(best.date) THEN rows[i] ELSE best)

MostActiveShown == 5
RecentShown == 5

\* analyze_listing_coverage(files_info); avg_dates_per_listing is in tenths
ListingCoverage(info) ==
    LET g == ListingsById(info)
        counted == [k \in 1..Len(g) |-> [listing_id |-> g[k].id, key |-> Len(g[k].rows)]]
        latest == [k \in 1..Len(g) |-> LatestFile(g[k].rows, 2, g[k].rows[1])]
        dated == SelectSeq([k \in 1..Len(g) |->
                              [listing_id |-> g[k].id, key |-> DateKey(latest[k].date),
                               latest_date |-> latest[k].date]],
                           LAMBDA e : e.latest_date # UnknownDate)
        most_active == Truncate(SortedReverse(<<>>, counted, 1), MostActiveShown)
        recent == Truncate(SortedReverse(<<>>, dated, 1), RecentShown)
    IN IF Len(g) = 0
       THEN [total_listings |-> 0, avg_dates_per_listing |-> 0,
             listings_with_single_date |-> 0, most_active_listings |-> <<>>,
             recent_listings |-> <<>>]
       ELSE [total_listings |-> Len(g),
             avg_dates_per_listing |->
                RoundTenths(Cardinality({i \in 1..Len(info) :
                                            info[i].listing_id # UnknownId}), Len(g)),
             listings_with_single_date |->
                Cardinality({k \in 1..Len(g) : Len(g[k].rows) = 1}),
             most_active_listings |->
                [k \in 1..Len(most_active) |->
                    [listing_id |-> most_active[k].listing_id,
                     date_count |-> most_active[k].key]],
             recent_listings |->
                [k \in 1..Len(recent) |->
                    [listing_id |-> recent[k].listing_id,
                     latest_date |-> recent[k].latest_date]]]

\* the report dict
Report(info, now) ==
    LET stats == SummaryStats(info)
        fr == CheckFreshness(info, now)
        st == HealthStatus(stats, fr)
    IN [health_status |-> st.health_status, issues |-> st.issues,
        summary |-> stats, data_freshness |-> fr,
        listing_coverage |-> ListingCoverage(info)]

NoReport == [kind |-> "none", value |-> Report(<<>>, Strptime(<<1, 1, 1>>))]

\* generate_report(), called while no ETL call is running: the files are
\* scanned (info is the list the scan gave), the metrics computed and the
\* status determined
GenerateReport(info) ==
    /\ hpc = "idle"
    /\ pc \in {"idle", "returned", "raised"}
    /\ rpc = "idle"
    /\ files_info' = info
    /\ freshness' = CheckFreshness(info, today)
    /\ report' = Value(Report(info, today))
    /\ hpc' = "reported"
    /\ UNCHANGED <<today, summary_stats, quick, output_path, command, exit_code>>
    /\ UNCHANGED <<fetchVars, etlVars, rangeVars, unitVars>>

\* check_data_freshness(files_info) called on a list of FileRecords
CheckDataFreshness(info) ==
    /\ hpc = "idle"
    /\ pc = "idle"
    /\ rpc = "idle"
    /\ files_info' = info
    /\ freshness' = CheckFreshness(info, today)
    /\ hpc' = "checked"
    /\ UNCHANGED <<today, report, summary_stats, quick, output_path, command,
                   exit_code>>
    /\ UNCHANGED <<fetchVars, etlVars, rangeVars, unitVars>>

\* no path
NoFile == [dir |-> <<>>, stem |-> <<0, 0, 0>>, ext |-> ""]

HealthIdle(now) ==
    /\ today = now
    /\ files_info = <<>>
    /\ freshness = NoFreshness
    /\ report = NoReport
    /\ hpc = "idle"
    /\ summary_stats = NoStats
    /\ quick = "none"
    /\ output_path = NoFile
    /\ command = "none"
    /\ exit_code = -1

MaxInfo == 3

\* the days files are dated, the days the monitor runs, and the date fields
\* of the FileRecords check_data_freshness is called with
HealthDates ==
    {<<2025, 1, 14>>, <<2025, 1, 29>>, <<2025, 1, 31>>, <<2025, 2, 1>>, <<2025, 2, 2>>,
     <<2025, 2, 3>>}
Todays == {Strptime(<<2025, 2, 1>>), Strptime(<<2025, 2, 4>>), Strptime(<<2025, 2, 6>>)}
InfoDates == HealthDates \cup {UnknownDate, BadDate}

\* the row counts of FileRecords: unreadable, no rows, some rows
RowCounts == {UnreadableRows, 0, 1, 2}

\* a data directory holding, for listing "1", the partitions of the days of
\* S, and those of extra for listing "2"
TreeOf(S, extra) ==
    LET paths == {ParquetFilePath("1", d) : d \in S}
                    \cup {ParquetFilePath("2", d) : d \in extra}
    IN [files |-> [p \in paths |-> TransformListingData(<<L1>>)],
        dirs |-> IF paths = {} THEN {}
                 ELSE UNION {Mkdir({}, p.dir) : p \in paths}]

\* the tree with the files of the days of C made unreadable
Corrupted(tree, C) ==
    [tree EXCEPT !.files = [p \in DOMAIN tree.files |->
                               IF p.stem \in C THEN CorruptFile ELSE tree.files[p]]]

\* the directories scanned: any set of days for one listing; two listings
\* with a partition of the same day; directories with files that cannot be
\* read; and directories whose file names are not dates
HealthTrees ==
    {TreeOf(S, {}) : S \in SUBSET HealthDates}
        \cup {TreeOf({<<2025, 2, 2>>}, {<<2025, 2, 2>>})}
        \cup {Corrupted(TreeOf(S, {}), C) :
                S \in SUBSET {<<2025, 2, 2>>, <<2025, 2, 3>>},
                C \in SUBSET {<<2025, 2, 2>>, <<2025, 2, 3>>}}
        \cup {TreeOf({BadDate}, {}), TreeOf({BadDate}, {BadDate})}

\* get_quick_status: the outcome of its if / elif / else
QuickStatus(info, now) ==
    LET stats == SummaryStats(info)
        fr == CheckFreshness(info, now)
    IN IF stats.total_files = 0 THEN "no_data"
       ELSE IF IsStale(fr.days_since_latest) THEN "stale"
       ELSE "healthy"

\* get_quick_status(): the files are scanned (info is the list the scan gave)
\* and the status string returned
GetQuickStatus(info) ==
    /\ hpc = "idle"
    /\ pc = "idle"
    /\ rpc = "idle"
    /\ quick = "none"
    /\ command = "none"
    /\ quick' = QuickStatus(info, today)
    /\ UNCHANGED <<today, files_info, freshness, report, hpc, summary_stats,
                   output_path, command, exit_code>>
    /\ UNCHANGED <<fetchVars, etlVars, rangeVars, unitVars>>

\* the entry points of the health-report command
Commands == {"cli", "script"}

\* "data/health.json", the default of the CLI command
DefaultOutputFile == [dir |-> <<"data">>, stem |-> <<"health">>, ext |-> "json"]

\* Config.get_health_file_path: get_data_path("health.json")
GetHealthFilePath == [dir |-> <<DataBasePath>>, stem |-> <<"health">>, ext |-> "json"]

\* the values of --output: none, a file in a directory that does not exist
\* yet, and the name of the directory of listing "1"
OutputOptions ==
    {NoFile,
     [dir |-> <<"tmp", "reports">>, stem |-> <<"health">>, ext |-> "json"],
     [dir |-> RawDataPath, stem |-> <<"1">>, ext |-> ""]}

\* mutant: the report goes to the default file whatever --output says
OutputFileDefault(cmd, opt) ==
    IF cmd = "cli" THEN DefaultOutputFile ELSE GetHealthFilePath

\* the output_file of the command: --output, or the default of the entry point
OutputFile(cmd, opt) ==
    IF opt # NoFile THEN opt
    ELSE IF cmd = "cli" THEN DefaultOutputFile ELSE GetHealthFilePath

\* open(output_file, "w") raises: the path names a directory
IsADirectory(ds, path) == path.ext = "" /\ (path.dir \o path.stem) \in ds

\* the health-report command is started from entry point cmd with --output opt
RunHealthCommand(cmd, opt) ==
    /\ hpc = "idle"
    /\ pc = "idle"
    /\ rpc = "idle"
    /\ command = "none"
    /\ quick = "none"
    /\ command' = cmd
    /\ output_path' = opt
    /\ UNCHANGED <<today, files_info, freshness, report, hpc, summary_stats, quick,
                   exit_code>>
    /\ UNCHANGED <<fetchVars, etlVars, rangeVars, unitVars>>

\* write_report(report, output_file): the parent directories are made and the
\* report dumped to the file; open raises when the path is a directory
WriteReport ==
    /\ hpc = "reported"
    /\ command \in Commands
    /\ LET out == OutputFile(command, output_path)
       IN /\ dirs' = Mkdir(dirs, out.dir)
          /\ IF IsADirectory(dirs', out)
             THEN /\ hpc' = "write_raised"
                  /\ files' = files
             ELSE /\ hpc' = "written"
                  /\ files' = WriteFile(files, out, [json |-> report.value])
    /\ UNCHANGED <<date, dry_run, listings, grouped, gi, file_paths, files_written,
                   outcomes, fs0, result>>
    /\ UNCHANGED <<today, files_info, freshness, report, summary_stats, quick,
                   output_path, command, exit_code>>
    /\ UNCHANGED <<fetchVars, rangeVars, unitVars>>

\* sys.exit of scripts/health_check.py: 2, 1 or 0 by the status, 3 from the
\* except clause
ScriptExitCode(raised, status) ==
    IF raised THEN 3
    ELSE IF status = "critical" THEN 2
    ELSE IF status = "warning" THEN 1
    ELSE 0

\* the exit of the CLI command: typer.Exit(1) from the except clause, and
\* the return of the function otherwise
CliExitCode(raised, status) == IF raised THEN 1 ELSE 0

\* the process of the command ends
ExitHealthCommand ==
    /\ hpc \in {"written", "write_raised"}
    /\ command \in Commands
    /\ exit_code' =
          IF command = "script"
          THEN ScriptExitCode(hpc = "write_raised", report.value.health_status)
          ELSE CliExitCode(hpc = "write_raised", report.value.health_status)
    /\ hpc' = "exited"
    /\ UNCHANGED <<today, files_info, freshness, report, summary_stats, quick,
                   output_path, command>>
    /\ UNCHANGED <<fetchVars, etlVars, rangeVars, unitVars>>

\* the directories the command is run over: those of at most two files
CommandTrees == {tree \in HealthTrees : Cardinality(DOMAIN tree.files) <= 2}

-----------------------------------------------------------------------------
(* Specifications                                                           *)

FetchIdle(who) ==
    /\ pc = "idle"
    /\ caller = who
    /\ batch_size = EtlBatchSize
    /\ offset = 0
    /\ total_fetched = 0
    /\ all_listings = <<>>
    /\ attempt = 0
    /\ slept = <<>>
    /\ requests = <<>>
    /\ responses = <<>>
    /\ served = <<>>
    /\ lastPage = NoPage
    /\ error = "none"
    /\ fetched = NoValue

EtlIdle(tree) ==
    /\ date = <<0, 0, 0>>
    /\ dry_run = FALSE
    /\ listings = <<>>
    /\ grouped = <<>>
    /\ gi = 0
    /\ file_paths = <<>>
    /\ files_written = 0
    /\ files = tree.files
    /\ dirs = tree.dirs
    /\ fs0 = tree
    /\ outcomes = <<>>
    /\ result = NoResult

RangeIdle ==
    /\ start_date = <<0, 0, 0>>
    /\ end_date = <<0, 0, 0>>
    /\ range_dry = FALSE
    /\ current_dt = Strptime(<<0, 0, 0>>)
    /\ calls = <<>>
    /\ results = <<>>
    /\ total_listings = 0
    /\ total_files = 0
    /\ rpc = "idle"
    /\ rerror = "none"
    /\ summary = NoSummary

EmptyTree == [files |-> NoFiles, dirs |-> {}]

\* the client alone: get_all_listings_for_date called with a batch size
Init ==
    /\ FetchIdle("client") /\ EtlIdle(EmptyTree) /\ RangeIdle
    /\ UnitIdle /\ HealthIdle(Strptime(Day1))

NextFetch ==
    \/ \E bs \in BatchSizes : ClientCall(bs)
    \/ \E status \in ErrorStatuses : ErrorResponse(status)
    \/ RequestException
    \/ InvalidPayload
    \/ \E page \in SeqUpTo(ClientListings, MaxPageLen), total \in Totals :
          PageReceived(page, total)

SpecFetch == Init /\ [][NextFetch]_vars

\* the same, with progress: session.request answers or raises within the
\* request timeout, and a sleep of the retry policy ends
SpecFetchFair == SpecFetch /\ WF_vars(NextFetch)

\* process_date on a tree that an earlier run may have written to
InitEtl ==
    /\ FetchIdle("process_date")
    /\ \E tree \in PriorTrees : EtlIdle(tree)
    /\ RangeIdle
    /\ UnitIdle /\ HealthIdle(Strptime(Day1))

Next ==
    \/ \E d \in Dates, dry \in BOOLEAN : ProcessDate(d, dry)
    \/ \E status \in ErrorStatuses : ErrorResponse(status)
    \/ RequestException
    \/ InvalidPayload
    \/ \E page \in SeqUpTo(Listings, MaxPageLen), total \in Totals :
          PageReceived(page, total)
    \/ \E outcome \in WriteOutcomes : ProcessGroup(outcome)

Spec == InitEtl /\ [][Next]_vars

\* process_date_range over the ranges of RangeStarts and RangeEnds
InitRange ==
    /\ FetchIdle("process_date") /\ EtlIdle(EmptyTree) /\ RangeIdle
    /\ UnitIdle /\ HealthIdle(Strptime(Day1))

NextRange ==
    \/ \E s \in RangeStarts, dry \in BOOLEAN :
          \E e \in RangeEnds(s) : ProcessDateRange(s, e, dry)
    \/ \E outcome \in DayOutcomes(range_dry) : RangeDay(outcome)

SpecRange == InitRange /\ [][NextRange]_vars

\* one call of the processor, of process_date or of process_date_range
InitCalls ==
    /\ FetchIdle("process_date") /\ EtlIdle(EmptyTree) /\ RangeIdle
    /\ UnitIdle /\ HealthIdle(Strptime(Day1))

NextCalls ==
    \/ \E d \in Dates, dry \in BOOLEAN : rpc = "idle" /\ ProcessDate(d, dry)
    \/ \E status \in ErrorStatuses : ErrorResponse(status)
    \/ RequestException
    \/ InvalidPayload
    \/ \E page \in SeqUpTo(ClientListings, MaxPageLen), total \in Totals :
          PageReceived(page, total)
    \/ \E outcome \in WriteOutcomes : ProcessGroup(outcome)
    \/ \E s \in RangeStarts, dry \in BOOLEAN :
          \E e \in RangeEnds(s) : pc = "idle" /\ ProcessDateRange(s, e, dry)
    \/ \E outcome \in DayOutcomes(range_dry) : RangeDay(outcome)

SpecCalls == InitCalls /\ [][NextCalls]_vars

\* _write_parquet_file called up to MaxWrites times on an empty data directory
NextWrite ==
    \E df \in WriteFrames, listing_id \in {"1", "2"}, d \in {Day1, Day2},
       outcome \in WriteOutcomes : WriteParquetFile(df, listing_id, d, outcome)

SpecWrite == InitCalls /\ [][NextWrite]_vars

\* _transform_listing_data called on lists of up to MaxRecords records
NextTransform == \E ls \in SeqUpTo(Listings, MaxRecords) : TransformCall(ls)

SpecTransform == InitCalls /\ [][NextTransform]_vars

\* the monitor run on a day of Todays over a data directory of HealthTrees
InitHealth ==
    /\ FetchIdle("process_date")
    /\ \E tree \in HealthTrees : EtlIdle(tree)
    /\ RangeIdle
    /\ UnitIdle
    /\ \E now \in Todays : HealthIdle(now)

NextHealth ==
    /\ hpc = "idle"
    /\ \E info \in Scans(files, dirs) : GenerateReport(info) \/ GetQuickStatus(info)

SpecHealth == InitHealth /\ [][NextHealth]_vars

\* check_data_freshness called on a day of Todays with lists of up to
\* MaxInfo FileRecords
InitFreshness ==
    /\ FetchIdle("process_date") /\ EtlIdle(EmptyTree) /\ RangeIdle
    /\ UnitIdle
    /\ \E now \in Todays : HealthIdle(now)

NextFreshness ==
    \E info \in SeqUpTo({FileRecord("1", d, 1, <<>>) : d \in InfoDates}, MaxInfo) :
        CheckDataFreshness(info)

SpecFreshness == InitFreshness /\ [][NextFreshness]_vars

\* calculate_summary_stats called with lists of up to MaxInfo FileRecords
NextSummary ==
    \E info \in SeqUpTo({FileRecord(listing_id, Day1, rows, <<>>) :
                            listing_id \in {"1", UnknownId}, rows \in RowCounts},
                        MaxInfo) :
        CalculateSummaryStats(info)

SpecSummary == InitFreshness /\ [][NextSummary]_vars

\* the health-report command run from either entry point on a day of Todays
\* over a data directory of CommandTrees
InitCommand ==
    /\ FetchIdle("process_date")
    /\ \E tree \in CommandTrees : EtlIdle(tree)
    /\ RangeIdle
    /\ UnitIdle
    /\ \E now \in Todays : HealthIdle(now)

NextCommand ==
    \/ \E cmd \in Commands, opt \in OutputOptions : RunHealthCommand(cmd, opt)
    \/ hpc = "idle"
          /\ \E info \in Scans(files, dirs) : GenerateReport(info) \/ GetQuickStatus(info)
    \/ WriteReport
    \/ ExitHealthCommand

SpecCommand == InitCommand /\ [][NextCommand]_vars

\* the records the API serves to the run that the monitor then scans: one
\* with the primary id, one with the fallback id, one with neither
ScannedListings == {L1, L3, L4}

\* process_date for Day1 on an empty data directory, against a server that
\* answers every request, and generate_report once the run is over
InitEtlHealth ==
    /\ FetchIdle("process_date") /\ EtlIdle(EmptyTree) /\ RangeIdle
    /\ UnitIdle /\ HealthIdle(Strptime(Day1))

NextEtlHealth ==
    \/ \E dry \in BOOLEAN : ProcessDate(Day1, dry)
    \/ \E page \in SeqUpTo(ScannedListings, MaxPageLen), total \in Totals :
          PageReceived(page, total)
    \/ \E outcome \in {"ok", "write_error"} : ProcessGroup(outcome)
    \/ /\ pc \in {"returned", "raised"}
       /\ hpc = "idle"
       /\ \E info \in Scans(files, dirs) : GenerateReport(info)

SpecEtlHealth == InitEtlHealth /\ [][NextEtlHealth]_vars

-----------------------------------------------------------------------------
(* Properties of the client                                                 *)

AllRateLimited(rs) == \A i \in 1..Len(rs) : rs[i] = Response(429)

IsOtherError(r) ==
    \/ r.kind = "exception"
    \/ r.kind = "response" /\ r.status >= 400 /\ r.status # 429

\* the last n elements of a sequence
Suffix(sq, n) == SubSeq(sq, Len(sq) - n + 1, Len(sq))

\* C1: get_all_listings_for_date goes on to the next page exactly while the
\* page just received is non-empty and leaves the cumulative count of records
\* below that page's total, it returns at the first page that is empty or
\* brings the count to the total, and what it accumulates and returns is the
\* in-order concatenation of the records of every page the server sent.
C1_PagingStopsAndConcatenates ==
    /\ caller = "client" => all_listings = served
    /\ (pc = "fetching" /\ lastPage # NoPage) =>
          /\ Len(lastPage.listings) > 0
          /\ Len(served) < lastPage.total
    /\ pc = "fetch_returned" =>
          /\ Len(lastPage.listings) = 0 \/ Len(served) >= lastPage.total
          /\ fetched = Value(served)

\* a call that returned after three pages, the last one non-empty
C1_Witness ==
    /\ pc = "fetch_returned"
    /\ Len(requests) = 3
    /\ Len(lastPage.listings) > 0
    /\ Len(fetched.value) = 3

\* C2: while a page request has received only 429 responses, k of them with
\* 1 <= k <= 4, it has not raised: it has slept k times and is about to make
\* attempt k+1; and when the next attempt succeeds the payload reaches the
\* caller, with no error, after k+1 attempts and k sleeps.
C2_RateLimitThenSuccess ==
    LET n == Len(responses) IN
    /\ (n \in 1..4 /\ AllRateLimited(responses)) =>
          /\ pc = "fetching"
          /\ error = "none"
          /\ Len(slept) = n
          /\ attempt = n + 1
    /\ (/\ n \in 2..5
        /\ AllRateLimited(SubSeq(responses, 1, n - 1))
        /\ responses[n] = Response(200)
        /\ pc = "fetch_returned") =>
          /\ error = "none"
          /\ fetched.kind = "value"
          /\ Suffix(fetched.value, Len(lastPage.listings)) = lastPage.listings
          /\ attempt = n
          /\ Len(slept) = n - 1

\* four 429 responses, then a payload of two records that is returned
C2_Witness ==
    /\ pc = "fetch_returned"
    /\ Len(responses) = 5
    /\ AllRateLimited(SubSeq(responses, 1, 4))
    /\ responses[5] = Response(200)
    /\ Len(lastPage.listings) = 2

\* C3: a page request never makes more than 5 attempts; when all 5 received
\* 429 the call has raised WheelhouseRateLimitError itself, and it raises that
\* error in no other case.
C3_RetryExhaustion ==
    /\ Len(responses) <= 5
    /\ (Len(responses) = 5 /\ AllRateLimited(responses)) =>
          /\ pc = "fetch_raised"
          /\ error = "WheelhouseRateLimitError"
          /\ fetched = NoValue
    /\ error = "WheelhouseRateLimitError" =>
          /\ Len(responses) = 5
          /\ AllRateLimited(responses)
          /\ Len(slept) = 4

\* the second page request of a call exhausted its attempts
C3_Witness ==
    /\ error = "WheelhouseRateLimitError"
    /\ Len(requests) = 2
    /\ Len(responses) = 5

\* C4: an attempt that receives a status >= 400 other than 429, or whose
\* transport raises, is the last attempt of its page request: the call has
\* raised WheelhouseAPIError, and every attempt before it received 429.
C4_OnlyRateLimitIsRetried ==
    LET n == Len(responses) IN
    /\ \A i \in 1..(n - 1) : responses[i] = Response(429)
    /\ (n > 0 /\ IsOtherError(responses[n])) =>
          /\ pc = "fetch_raised"
          /\ error = "WheelhouseAPIError"
          /\ fetched = NoValue
          /\ attempt = n

\* a transport exception on the attempt after four 429 responses
C4_Witness ==
    /\ error = "WheelhouseAPIError"
    /\ Len(responses) = 5
    /\ responses[5] = Raised
    /\ AllRateLimited(SubSeq(responses, 1, 4))

-----------------------------------------------------------------------------
(* Properties of process_date                                               *)

\* the page request in flight has failed: its last attempt met a transport
\* exception, an undecodable body, an error status other than 429, or the
\* fifth 429 in a row
PageFailed ==
    LET n == Len(responses) IN
    /\ n > 0
    /\ \/ responses[n].kind \in {"exception", "invalid_body"}
       \/ responses[n].status >= 400 /\ responses[n].status # 429
       \/ responses[n].status = 429 /\ n >= 5

\* the error a failed page request raises
FailureOf(r) ==
    CASE r.kind = "invalid_body" -> "JSONDecodeError"
      [] r.kind = "response" /\ r.status = 429 -> "WheelhouseRateLimitError"
      [] OTHER -> "WheelhouseAPIError"

RECURSIVE SumRows(_, _)
SumRows(g, i) == IF i > Len(g) THEN 0 ELSE Len(g[i].rows) + SumRows(g, i + 1)

\* the partition path of the specification: raw/{entity_id}/{day}.parquet
\* under the data root
PartitionPath(entity_id, day) ==
    [dir |-> <<"data", "raw", entity_id>>, stem |-> day, ext |-> "parquet"]

\* the groups whose transformation does not raise, in order
Transformable(g) == SelectSeq(g, LAMBDA e : ~TransformListingData(e.rows).raises)

PathsOf(g, day) == [j \in 1..Len(g) |-> PartitionPath(g[j].id, day)]

\* the paths whose file differs from the tree the call started from
Touched ==
    {p \in DOMAIN files \cup DOMAIN fs0.files :
        \/ p \notin DOMAIN files
        \/ p \notin DOMAIN fs0.files
        \/ files[p] # fs0.files[p]}

\* C5: when a page request fails, on the first page or after earlier pages
\* delivered records, process_date has raised the error of that request, no
\* list and no result has been returned, and the file tree is the one the
\* call started from.
C5_FetchFailureAbortsTheDay ==
    PageFailed =>
        /\ pc = "raised"
        /\ error = FailureOf(responses[Len(responses)])
        /\ fetched = NoValue
        /\ listings = <<>>
        /\ result.kind = "none"
        /\ file_paths = <<>>
        /\ outcomes = <<>>
        /\ files = fs0.files
        /\ dirs = fs0.dirs

\* the second page request failed after the first page delivered two records
C5_Witness ==
    /\ PageFailed
    /\ pc = "raised"
    /\ Len(requests) = 2
    /\ Len(all_listings) = 2

\* C6: for the N fetched records with K distinct resolved ids the grouping
\* has exactly K groups with pairwise distinct keys, their sizes sum to N,
\* and each group holds exactly the records that resolve to its key, in their
\* original relative order.
C6_GroupByEntity ==
    (pc \in {"processing", "returned"} /\ Len(listings) > 0) =>
        LET ids == {ResolveId(listings[i]) : i \in 1..Len(listings)} IN
        /\ Len(grouped) = Cardinality(ids)
        /\ {grouped[j].id : j \in 1..Len(grouped)} = ids
        /\ SumRows(grouped, 1) = Len(listings)
        /\ \A j \in 1..Len(grouped) :
              grouped[j].rows =
                  SelectSeq(listings, LAMBDA r : ResolveId(r) = grouped[j].id)

\* three records, two ids, the records of the first id not adjacent
C6_Witness ==
    /\ pc = "processing"
    /\ Len(listings) = 3
    /\ Len(grouped) = 2
    /\ grouped[1].rows = <<listings[1], listings[3]>>
    /\ listings[1] # listings[3]

\* C7 as claimed: a dry run leaves the tree unchanged, reports
\* files_written = 0 and returns one file path per entity group.
C7_AsClaimed ==
    (dry_run /\ pc = "returned" /\ Len(listings) > 0) =>
        /\ files = fs0.files
        /\ dirs = fs0.dirs
        /\ result.value.files_written = 0
        /\ Len(result.value.file_paths) = Len(grouped)

\* C7: at every point of a dry run the file tree (files and directories) is
\* the one the call started from; the result reports files_written = 0 and
\* one file path per entity group whose transformation did not raise.
C7_DryRunFrame ==
    dry_run =>
        /\ files = fs0.files
        /\ dirs = fs0.dirs
        /\ files_written = 0
        /\ (pc = "returned" /\ Len(listings) > 0) =>
              /\ result.value.files_written = 0
              /\ Len(result.value.file_paths) = Len(Transformable(grouped))

\* a dry run over two groups returned two paths, one of them the path of a
\* file that exists
C7_Witness ==
    /\ dry_run
    /\ pc = "returned"
    /\ Len(grouped) = 2
    /\ Len(result.value.file_paths) = 2
    /\ \E i \in 1..2 : result.value.file_paths[i] \in DOMAIN files

\* C8: the file_paths of a returned run are a function of the fetched records
\* and the day alone, the same for a dry and a real run: the path
\* raw/{entity_id}/{day}.parquet under the data root of each group whose
\* transformation did not raise, in group order.  In a real run each write
\* that succeeded left its table at exactly that path, and no file at any
\* other path has changed.
C8_DryRunPreviewsPartitions ==
    (pc = "returned" /\ Len(listings) > 0) =>
        /\ result.value.file_paths = PathsOf(Transformable(grouped), date)
        /\ \A j \in 1..Len(grouped) :
              outcomes[j] = "ok" =>
                  LET p == PartitionPath(grouped[j].id, date) IN
                  /\ p \in DOMAIN files
                  /\ files[p] = TransformListingData(grouped[j].rows)
                  /\ InSeq(p, result.value.file_paths)
        /\ \A p \in Touched : InSeq(p, result.value.file_paths)

\* a real run wrote the partitions of two groups
C8_Witness ==
    /\ ~dry_run
    /\ pc = "returned"
    /\ outcomes = <<"ok", "ok">>
    /\ Cardinality(Touched) = 2

\* C9: once the loop over the groups has begun process_date does not raise;
\* when it returns every group has been handled, files_written is the number
\* of groups whose write succeeded, and each of those groups' tables is in
\* its file, whatever happened to the groups before or after it.
C9_GroupFailuresAreIsolated ==
    /\ Len(outcomes) > 0 => (pc \in {"processing", "returned"} /\ error = "none")
    /\ (pc = "returned" /\ Len(listings) > 0) =>
          /\ Len(outcomes) = Len(grouped)
          /\ result.kind = "value"
          /\ result.value.files_written = Count("ok", outcomes)
          /\ \A j \in 1..Len(grouped) :
                outcomes[j] = "ok" =>
                    /\ GetRawDataPath(grouped[j].id, date) \in DOMAIN files
                    /\ files[GetRawDataPath(grouped[j].id, date)] =
                          TransformListingData(grouped[j].rows)

\* the first group's transformation raised, the second group's write failed,
\* the third group was written
C9_Witness ==
    /\ pc = "returned"
    /\ outcomes = <<"transform_error", "write_error", "ok">>
    /\ result.value.files_written = 1

-----------------------------------------------------------------------------
(* Properties of process_date_range                                         *)

\* the calendar days from d to e
RECURSIVE DaysUntil(_, _)
DaysUntil(d, e) == IF d = e THEN <<d>> ELSE <<d>> \o DaysUntil(NextDay(d), e)

ValidRange ==
    /\ rpc # "idle"
    /\ IsValidDate(start_date)
    /\ IsValidDate(end_date)
    /\ ~DateAfter(Strptime(start_date), Strptime(end_date))

\* C10 as claimed: for valid dates start <= end, also across the end of a
\* month or year, process_date_range does not raise, and when it has ended
\* it has run process_date exactly once for each calendar day of
\* [start, end], in ascending order, and results_by_date of the summary it
\* returns has exactly one entry per day of the range.
C10_AsClaimed ==
    ValidRange =>
        /\ rpc \in {"looping", "returned"}
        /\ rpc = "returned" =>
              LET days == DaysUntil(start_date, end_date)
                  rs == summary.value.results_by_date
              IN /\ summary.kind = "value"
                 /\ calls = days
                 /\ [i \in 1..Len(rs) |-> rs[i].key] = days

\* the sum of field f over the days of rs that did not fail
RECURSIVE SumOk(_, _, _)
SumOk(rs, f, i) ==
    IF i > Len(rs) THEN 0
    ELSE (IF rs[i].entry.error THEN 0 ELSE rs[i].entry[f]) + SumOk(rs, f, i + 1)

SomeDayFailed == \E i \in 1..Len(results) : results[i].entry.error

\* C11 as claimed: when process_date fails for some day of a valid range,
\* the remaining days are still processed (the call ends by returning, after
\* one process_date call for each day of the range); the failed day is an
\* "error" entry of results_by_date, total_dates_processed +
\* total_dates_failed is the number of days handled, and total_listings and
\* total_files_written are the sums over the successful days only.
C11_AsClaimed ==
    (ValidRange /\ SomeDayFailed /\ rpc # "looping") =>
        /\ rpc = "returned"
        /\ calls = DaysUntil(start_date, end_date)
        /\ LET v == summary.value
               rs == v.results_by_date
           IN /\ rs = results
              /\ v.total_dates_processed + v.total_dates_failed = Len(calls)
              /\ v.total_dates_failed = Cardinality({i \in 1..Len(rs) : rs[i].entry.error})
              /\ v.total_listings = SumOk(rs, "total_listings", 1)
              /\ v.total_files_written = SumOk(rs, "files_written", 1)

-----------------------------------------------------------------------------
(* Properties of the input validation                                       *)

\* no page request has been issued and the file tree is as it was
NoSideEffect ==
    /\ requests = <<>>
    /\ responses = <<>>
    /\ served = <<>>
    /\ attempt = 0
    /\ files = fs0.files
    /\ dirs = fs0.dirs
    /\ outcomes = <<>>

\* start_date is a later day than end_date
StartAfterEnd ==
    \/ start_date[1] > end_date[1]
    \/ start_date[1] = end_date[1] /\ start_date[2] > end_date[2]
    \/ start_date[1] = end_date[1] /\ start_date[2] = end_date[2]
          /\ start_date[3] > end_date[3]

\* C12: process_date called with a string that is not a valid date, and
\* process_date_range called with start > end, have raised ValueError, and no
\* page request was issued, no file or directory was written and
\* process_date was not called for any day.
C12_ValidationPrecedesSideEffects ==
    /\ (pc # "idle" /\ ~IsValidDate(date)) =>
          /\ pc = "raised"
          /\ error = "ValueError"
          /\ result = NoResult
          /\ NoSideEffect
    /\ (rpc # "idle" /\ StartAfterEnd) =>
          /\ rpc = "raised"
          /\ rerror = "ValueError"
          /\ calls = <<>>
          /\ results = <<>>
          /\ summary = NoSummary
          /\ NoSideEffect

C12_Witness ==
    /\ rpc = "raised"
    /\ StartAfterEnd
    /\ IsValidDate(start_date)
    /\ IsValidDate(end_date)
    /\ rerror = "ValueError"

-----------------------------------------------------------------------------
(* Properties of _write_parquet_file and _transform_listing_data            *)

\* the write calls that reached pq.write_table for path p
WritesTo(p) ==
    {k \in 1..Len(writes) : writes[k].path = p /\ writes[k].how \in {"ok", "write_error"}}

LastWriteTo(p) == CHOOSE k \in WritesTo(p) : \A j \in WritesTo(p) : j <= k

\* C13: a write to an (entity id, day) replaces the file that is there: at
\* every path the file is the table of the last write to that path alone
\* (its rows and its columns, nothing of an earlier write), whatever was
\* written to other paths before or after it, and a path holds a file only
\* if a write to it succeeded.
C13_OverwriteInPlace ==
    /\ \A k \in 1..Len(writes) :
          LET p == writes[k].path
          IN (writes[k].how = "ok" /\ LastWriteTo(p) = k) =>
                /\ p \in DOMAIN files
                /\ files[p].rows = writes[k].df.rows
                /\ files[p].columns = writes[k].df.columns
    /\ \A p \in DOMAIN files : \E k \in 1..Len(writes) :
          writes[k].path = p /\ writes[k].how = "ok"

\* two writes of different tables to the same (entity id, day)
C13_Witness ==
    /\ Len(writes) = 2
    /\ writes[1].path = writes[2].path
    /\ writes[1].how = "ok"
    /\ writes[2].how = "ok"
    /\ writes[1].df.columns # writes[2].df.columns
    /\ Len(writes[1].df.rows) # Len(writes[2].df.rows)
    /\ DOMAIN files = {writes[2].path}

\* the columns of the canonical schema
CanonicalSchema ==
    {"listing_id", "title", "price", "location", "bedrooms", "bathrooms",
     "property_type", "listing_date", "last_updated", "amenities", "description",
     "host_id", "availability", "minimum_stay", "maximum_stay", "instant_book",
     "cancellation_policy", "review_score", "review_count", "latitude", "longitude"}

ColumnSet(df) == {df.columns[i] : i \in 1..Len(df.columns)}

\* C14: _transform_listing_data applied to an empty record list returns a
\* table with zero rows whose column set contains every column of the
\* canonical schema.
C14_EmptyInputGivesCanonicalSchema ==
    (table.kind # "none" /\ records = <<>>) =>
        /\ table.kind = "value"
        /\ Len(table.value.rows) = 0
        /\ CanonicalSchema \subseteq ColumnSet(table.value)

C14_Witness ==
    /\ table.kind = "value"
    /\ records = <<>>
    /\ Len(table.value.columns) = 21

\* C15 as claimed: for every input, empty or not, the table that
\* _transform_listing_data returns contains the two processing-metadata
\* columns etl_processed_at and etl_source.
C15_AsClaimed ==
    table.kind = "value" =>
        {"etl_processed_at", "etl_source"} \subseteq ColumnSet(table.value)

-----------------------------------------------------------------------------
(* Properties of the HealthMonitor                                          *)

\* the first status rule that matches, from the counts of the report
RuleOf(file_count, fr) ==
    IF file_count = 0 THEN "no_files"
    ELSE IF fr.days_since_latest.some /\ fr.days_since_latest.v > 2 THEN "stale"
    ELSE IF Len(fr.missing_recent_dates) > 3 THEN "missing"
    ELSE "none"

IssueTexts(v) == {v.issues[i].text : i \in 1..Len(v.issues)}

\* C16: generate_report classifies by the first matching rule: no file in the
\* data directory gives critical with the issue that no data files were
\* found; otherwise days_since_latest present and > 2 gives warning;
\* otherwise more than 3 missing recent dates gives warning; otherwise
\* healthy.  No other status is produced.
C16_StatusByFirstMatchingRule ==
    report.kind = "value" =>
        LET v == report.value
            rule == RuleOf(Cardinality(DOMAIN files), v.data_freshness)
        IN /\ v.health_status \in {"critical", "warning", "healthy"}
           /\ v.health_status = CASE rule = "no_files" -> "critical"
                                  [] rule = "stale" -> "warning"
                                  [] rule = "missing" -> "warning"
                                  [] OTHER -> "healthy"
           /\ rule = "no_files" => "No data files found" \in IssueTexts(v)
           /\ v.data_freshness = freshness
           /\ rule = "none" => v.issues = <<>>

\* data that is three days old with three recent dates missing: the second
\* rule alone gives the warning
C16_Witness ==
    /\ report.kind = "value"
    /\ report.value.health_status = "warning"
    /\ report.value.data_freshness.days_since_latest = SomeInt(3)
    /\ Len(report.value.data_freshness.missing_recent_dates) = 3

\* C17 as claimed: every triggered rule appends its issue: when the data is
\* more than 2 days old and more than 3 recent dates are missing, the issues
\* hold both the staleness issue and the missing-recent-dates issue, and the
\* status is the first rule's.
C17_AsClaimed ==
    report.kind = "value" =>
        LET v == report.value
            fr == v.data_freshness
        IN (/\ Cardinality(DOMAIN files) > 0
            /\ fr.days_since_latest.some
            /\ fr.days_since_latest.v > 2
            /\ Len(fr.missing_recent_dates) > 3) =>
               /\ v.health_status = "warning"
               /\ "Data is {} days old" \in IssueTexts(v)
               /\ "Multiple recent dates missing" \in IssueTexts(v)

\* the days of the FileRecords check_data_freshness was called with
InfoDays == {files_info[i].date : i \in 1..Len(files_info)}
ValidDays == {d \in InfoDays : d # UnknownDate /\ IsValidDate(d)}
OrdinalOf(d) == ToOrdinal(Strptime(d))
Ordinals(S) == {OrdinalOf(d) : d \in S}

\* C18: check_data_freshness on a FileRecord list that is empty, or whose
\* every day is the "unknown" sentinel, reports has_data = false, no
\* latest_date, no days_since_latest, and empty missing_recent_dates and
\* data_gaps.
C18_NoDatesNoData ==
    (hpc = "checked" /\ InfoDays \subseteq {UnknownDate}) =>
        /\ freshness.has_data = FALSE
        /\ freshness.latest_date = NoneDate
        /\ freshness.days_since_latest = NoneInt
        /\ freshness.missing_recent_dates = <<>>
        /\ freshness.data_gaps = <<>>

C18_Witness ==
    /\ hpc = "checked"
    /\ Len(files_info) = 2
    /\ InfoDays = {UnknownDate}
    /\ ~freshness.has_data

\* the ordinals of the days strictly between the earliest and the latest
\* valid day that no FileRecord has
AbsentBetween ==
    LET os == Ordinals(ValidDays)
    IN UNION {{n \in (a + 1)..(b - 1) : n \notin os} : a \in os, b \in os}

\* C19: with at least one valid day, total_gaps is the number of calendar
\* days strictly between the earliest and the latest observed day that are
\* absent from the set, and data_gaps is the first min(10, total_gaps) of
\* those days in ascending order.
C19_GapsCountedAndCapped ==
    (hpc = "checked" /\ ValidDays # {}) =>
        LET gaps == freshness.data_gaps
            absent == AbsentBetween
        IN /\ freshness.total_gaps = SomeInt(Cardinality(absent))
           /\ Len(gaps) = IF Cardinality(absent) < 10 THEN Cardinality(absent) ELSE 10
           /\ \A j \in 1..Len(gaps) :
                 /\ IsValidDate(gaps[j])
                 /\ OrdinalOf(gaps[j]) \in absent
                 /\ Cardinality({n \in absent : n < OrdinalOf(gaps[j])}) = j - 1

\* 2025-01-14 and 2025-02-02 only: 18 days are absent, 10 are listed
C19_Witness ==
    /\ hpc = "checked"
    /\ ValidDays = {<<2025, 1, 14>>, <<2025, 2, 2>>}
    /\ freshness.total_gaps = SomeInt(18)
    /\ Len(freshness.data_gaps) = 10
    /\ freshness.data_gaps[10] = <<2025, 1, 24>>

\* the calendar days around the days of the model
CalendarDays == {d \in {<<2025, m, n>> : m \in 1..2, n \in 1..31} : IsValidDate(d)}

\* C20: with at least one valid day, missing_recent_dates is exactly the set
\* of days d in today-1 .. today-7 for which no FileRecord has day d: at most
\* 7 entries, never today, never a day that is present.
C20_MissingRecentDates ==
    (hpc = "checked" /\ ValidDays # {}) =>
        LET missing == freshness.missing_recent_dates
            expected == {d \in CalendarDays :
                            /\ ToOrdinal(today) - OrdinalOf(d) \in 1..7
                            /\ d \notin InfoDays}
        IN /\ {missing[i] : i \in 1..Len(missing)} = expected
           /\ Len(missing) = Cardinality(expected)
           /\ Len(missing) <= 7
           /\ \A i \in 1..Len(missing) :
                 missing[i] # Strftime(today) /\ missing[i] \notin InfoDays

\* run on 2025-02-04 with files of 02-03, 02-01 and 01-29: four of the last
\* seven days are missing, two of them in January
C20_Witness ==
    /\ hpc = "checked"
    /\ today = Strptime(<<2025, 2, 4>>)
    /\ ValidDays = {<<2025, 2, 3>>, <<2025, 2, 1>>, <<2025, 1, 29>>}
    /\ freshness.missing_recent_dates =
          <<(<<2025, 2, 2>>), (<<2025, 1, 31>>), (<<2025, 1, 30>>), (<<2025, 1, 28>>)>>

\* the entries of files_info with a row count that is not the sentinel
NonNegative == {i \in 1..Len(files_info) : files_info[i].row_count >= 0}

RECURSIVE SumOver(_, _)
SumOver(S, i) ==
    IF i > Len(files_info) THEN 0
    ELSE (IF i \in S THEN files_info[i].row_count ELSE 0) + SumOver(S, i + 1)

\* C21 as claimed: total_rows is the sum of row_count over the FileRecords
\* with a non-negative row count, and avg_rows_per_file is that sum divided
\* by the number of FileRecords with a non-negative row count (a readable
\* file with zero rows counts in the denominator, an unreadable one does
\* not), rounded to a tenth.
C21_AsClaimed ==
    hpc = "summarised" =>
        /\ summary_stats.total_rows = SumOver(NonNegative, 1)
        /\ summary_stats.avg_rows_per_file =
              IF NonNegative = {} THEN 0
              ELSE RoundTenths(SumOver(NonNegative, 1), Cardinality(NonNegative))

\* the FileRecords of the scan that were made from the file at path p
RecordsOf(p) ==
    {i \in 1..Len(files_info) :
        files_info[i].listing_id = p.dir[Len(p.dir)] /\ files_info[i].date = p.stem}

GivenOutputPath(opt) == IF opt # NoFile THEN opt ELSE DefaultOutputFile

C23_HealthIsReadOnly ==
    [][LET given == GivenOutputPath(output_path')
           writes_report == hpc = "reported" /\ hpc' \in {"written", "write_raised"}
       IN /\ ~writes_report => files' = files /\ dirs' = dirs
          /\ \A p \in DOMAIN files :
                p # given => p \in DOMAIN files' /\ files'[p] = files[p]
          /\ \A p \in DOMAIN files' : p \notin DOMAIN files => p = given
          /\ dirs \subseteq dirs'
          /\ \A dir \in dirs' \ dirs :
                \E k \in 1..Len(given.dir) : dir = SubSeq(given.dir, 1, k)]_vars

C23_Witness ==
    /\ hpc = "written"
    /\ quick = "none"
    /\ output_path.dir = <<"tmp", "reports">>
    /\ output_path \in DOMAIN files
    /\ files[output_path] = [json |-> report.value]
    /\ Cardinality(DOMAIN files) = 3
    /\ <<"tmp", "reports">> \in dirs
    /\ \A p \in DOMAIN files : p # output_path => files[p] = fs0.files[p]


\* C24: as claimed, from either entry point the health-report command exits
\* with 0 when the report is healthy, 1 when it is warning, 2 when it is
\* critical, and 3 when generating or writing the report failed.
C24_AsClaimed ==
    hpc = "exited" =>
        exit_code =
            IF IsADirectory(dirs, GivenOutputPath(output_path)) THEN 3
            ELSE IF report.value.health_status = "healthy" THEN 0
            ELSE IF report.value.health_status = "warning" THEN 1
            ELSE 2

\* C25: as claimed, for every batch size the offset of each page request of
\* one get_all_listings_for_date call is the sum of the limits sent in the
\* page requests before it.
RECURSIVE SumLimits(_, _)
SumLimits(reqs, n) == IF n = 0 THEN 0 ELSE reqs[n].limit + SumLimits(reqs, n - 1)

C25_AsClaimed ==
    \A i \in 1..Len(requests) : requests[i].offset = SumLimits(requests, i - 1)

\* C26: as claimed, when process_date with dry_run false returns,
\* files_written is the number of entries of file_paths and every entry is
\* the path of a group whose file this run wrote.
C26_AsClaimed ==
    (pc = "returned" /\ ~dry_run) =>
        /\ result.value.files_written = Len(result.value.file_paths)
        /\ \A i \in 1..Len(result.value.file_paths) :
              \E g \in 1..Len(grouped) :
                 /\ outcomes[g] = "ok"
                 /\ result.value.file_paths[i] = GetRawDataPath(grouped[g].id, date)

C28_AsClaimed ==
    (hpc = "reported" /\ quick # "none") =>
        /\ quick = "healthy" <=> report.value.health_status = "healthy"
        /\ quick = "stale" <=> report.value.health_status = "warning"
        /\ quick = "no_data" <=> report.value.health_status = "critical"

\* C29: as claimed, when the scan finds at least one file and no file's day
\* parses as a calendar date, generate_report does not return the status
\* healthy with no issue.
C29_AsClaimed ==
    (/\ hpc = "reported"
     /\ Len(files_info) > 0
     /\ \A i \in 1..Len(files_info) : ~IsValidDate(files_info[i].date)) =>
        ~(report.value.health_status = "healthy" /\ report.value.issues = <<>>)

\* C30: the records of a run that carry neither "id" nor "listing_id" are
\* all in the one group "unknown", and when that group is written they are
\* together the rows of raw/unknown/{day}.parquet; the scan that follows
\* has one FileRecord for that file, counted in total_files and total_rows,
\* while unique_listings and every figure of listing_coverage are those of
\* the files of the other listings; and summary.unique_listings equals
\* listing_coverage.total_listings in every report.
HasNoId(listing) == listing.id = Absent /\ listing.listing_id = Absent

UnknownPartition(d) ==
    [dir |-> <<"data", "raw", "unknown">>, stem |-> d, ext |-> "parquet"]

\* files_info without the entries of "unknown"
KnownOnly(info) == SelectSeq(info, LAMBDA f : f.listing_id # "unknown")

C30_UnknownGroupIsNotAListing ==
    /\ hpc = "reported" =>
          report.value.summary.unique_listings
              = report.value.listing_coverage.total_listings
    /\ (hpc = "reported" /\ pc = "returned" /\ Len(listings) > 0) =>
          LET idless == SelectSeq(listings, HasNoId)
              groups == {g \in 1..Len(grouped) : grouped[g].id = "unknown"}
              entries == {i \in 1..Len(files_info) : files_info[i].listing_id = "unknown"}
              rep == report.value
              known == KnownOnly(files_info)
              ids == {known[i].listing_id : i \in 1..Len(known)}
          IN /\ \A g \in 1..Len(grouped) : g \notin groups =>
                   SelectSeq(grouped[g].rows, HasNoId) = <<>>
             /\ idless # <<>> =>
                   /\ Cardinality(groups) = 1
                   /\ \A g \in groups : grouped[g].rows = idless
             /\ \A g \in groups : outcomes[g] = "ok" =>
                   /\ UnknownPartition(date) \in DOMAIN files
                   /\ files[UnknownPartition(date)].rows = idless
                   /\ Cardinality(entries) = 1
                   /\ \A i \in entries : /\ files_info[i].date = date
                                         /\ files_info[i].row_count = Len(idless)
             /\ rep.summary.total_files = Cardinality(DOMAIN files)
             /\ rep.summary.total_rows = SumOver(1..Len(files_info), 1)
             /\ rep.summary.unique_listings = Cardinality(ids)
             /\ rep.listing_coverage = ListingCoverage(known)
             /\ \A k \in 1..Len(rep.listing_coverage.most_active_listings) :
                   rep.listing_coverage.most_active_listings[k].listing_id # "unknown"
             /\ \A k \in 1..Len(rep.listing_coverage.recent_listings) :
                   rep.listing_coverage.recent_listings[k].listing_id # "unknown"

C30_Witness ==
    /\ hpc = "reported"
    /\ pc = "returned"
    /\ ~dry_run
    /\ listings = <<L4, L1, L4>>
    /\ outcomes = <<"ok", "ok">>
    /\ files[UnknownPartition(date)].rows = <<L4, L4>>
    /\ report.value.summary.total_files = 2
    /\ report.value.summary.total_rows = 3
    /\ report.value.summary.unique_listings = 1
    /\ report.value.listing_coverage.total_listings = 1

=============================================================================
